---- MODULE Spec2Model ----
(***************************************************************************)
(* TOON codec of Zendevve/toon-protocol: the encoder (convertToToon), the   *)
(* scalar codec (escapeVal / parseValue / parseCSV) and the line-oriented  *)
(* decoder (ToonDecoder).                                                  *)
(*                                                                         *)
(* Text is a sequence of one-character strings.  A JavaScript value is a   *)
(* tagged record: [t |-> "null"], [t |-> "bool", v |-> b],                   *)
(* [t |-> "num", v |-> n], [t |-> "str", v |-> chars],                       *)
(* [t |-> "arr", v |-> <<values>>], [t |-> "obj", v |-> <<<<key, value>>>>]   *)
(* with the entries of an object in insertion order.  Numbers are          *)
(* integers; object keys are non-numeric identifiers, so that insertion    *)
(* order is the enumeration order of Object.keys.                          *)
(***************************************************************************)
EXTENDS Integers, Sequences, FiniteSets, TLC

(* ------------------------------------------------------------------ *)
(* Characters and strings                                              *)
(* ------------------------------------------------------------------ *)

NL == "\n"
QUOTE == "\""

Digits == <<"0", "1", "2", "3", "4", "5", "6", "7", "8", "9">>

DigitSet == {Digits[i] : i \in 1..10}

\* \w of the regular expressions: [A-Za-z0-9_]
WordChars ==
  DigitSet \cup {"_"} \cup
  {"a", "b", "c", "d", "e", "f", "g", "h", "i", "j", "k", "l", "m",
   "n", "o", "p", "q", "r", "s", "t", "u", "v", "w", "x", "y", "z"} \cup
  {"A", "B", "C", "D", "E", "F", "G", "H", "I", "J", "K", "L", "M",
   "N", "O", "P", "Q", "R", "S", "T", "U", "V", "W", "X", "Y", "Z"}

\* \s and String.prototype.trim: the white space that occurs in the model
IsWS(c) == c \in {" ", NL, "\t", "\r"}

MinOf(S) == CHOOSE x \in S : \A y \in S : x <= y
MaxOf(S) == CHOOSE x \in S : \A y \in S : x >= y

\* number of leading white-space characters: line.match(/^(\s*)/)[1].length
LeadWS(s) ==
  LET idx == {i \in 1..Len(s) : ~IsWS(s[i])}
  IN IF idx = {} THEN Len(s) ELSE MinOf(idx) - 1

TrimStart(s) == SubSeq(s, LeadWS(s) + 1, Len(s))

Trim(s) ==
  LET idx == {i \in 1..Len(s) : ~IsWS(s[i])}
  IN IF idx = {} THEN <<>> ELSE SubSeq(s, MinOf(idx), MaxOf(idx))

StartsWith(s, p) == Len(s) >= Len(p) /\ SubSeq(s, 1, Len(p)) = p

EndsWith(s, p) == Len(s) >= Len(p) /\ SubSeq(s, Len(s) - Len(p) + 1, Len(s)) = p

Includes(s, c) == \E i \in 1..Len(s) : s[i] = c

\* '  '.repeat(n)
RECURSIVE Spaces(_)
Spaces(n) == IF n <= 0 THEN <<>> ELSE <<" ", " ">> \o Spaces(n - 1)

\* parts.join(sep)
RECURSIVE Join(_, _)
Join(parts, sep) ==
  IF Len(parts) = 0 THEN <<>>
  ELSE IF Len(parts) = 1 THEN parts[1]
  ELSE parts[1] \o sep \o Join(Tail(parts), sep)

\* s.split(c) for a one-character separator
RECURSIVE Split(_, _)
Split(s, c) ==
  LET idx == {i \in 1..Len(s) : s[i] = c}
  IN IF idx = {} THEN <<s>>
     ELSE LET i == MinOf(idx)
          IN <<SubSeq(s, 1, i - 1)>> \o Split(SubSeq(s, i + 1, Len(s)), c)

\* str.replace(/"/g, '""')
RECURSIVE DoubleQuotes(_)
DoubleQuotes(s) ==
  IF s = <<>> THEN <<>>
  ELSE IF Head(s) = QUOTE THEN <<QUOTE, QUOTE>> \o DoubleQuotes(Tail(s))
  ELSE <<Head(s)>> \o DoubleQuotes(Tail(s))

\* str.replace(/""/g, '"'): leftmost pairs first, no overlap
RECURSIVE CollapseQuotes(_)
CollapseQuotes(s) ==
  IF s = <<>> THEN <<>>
  ELSE IF Len(s) >= 2 /\ s[1] = QUOTE /\ s[2] = QUOTE
       THEN <<QUOTE>> \o CollapseQuotes(SubSeq(s, 3, Len(s)))
  ELSE <<Head(s)>> \o CollapseQuotes(Tail(s))

\* String(n) of an integer
RECURSIVE NatToStr(_)
NatToStr(n) ==
  IF n < 10 THEN <<Digits[n + 1]>>
  ELSE NatToStr(n \div 10) \o <<Digits[(n % 10) + 1]>>

NumToStr(n) == IF n < 0 THEN <<"-">> \o NatToStr(0 - n) ELSE NatToStr(n)

DigitVal(c) == CHOOSE d \in 0..9 : Digits[d + 1] = c

RECURSIVE DigitsToNat(_)
DigitsToNat(s) ==
  IF s = <<>> THEN 0
  ELSE 10 * DigitsToNat(SubSeq(s, 1, Len(s) - 1)) + DigitVal(s[Len(s)])

AllDigits(s) == s # <<>> /\ \A i \in 1..Len(s) : s[i] \in DigitSet

\* !isNaN(Number(val)) for trimmed text without '.', exponents, radix
\* prefixes or "Infinity": an optional sign and decimal digits.  Number('')
\* is 0, which parseValue excludes by its own test.
IsNumeric(s) ==
  \/ s = <<>>
  \/ AllDigits(s)
  \/ Len(s) >= 2 /\ s[1] \in {"-", "+"} /\ AllDigits(Tail(s))

ToNumber(s) ==
  IF s = <<>> THEN 0
  ELSE IF s[1] = "-" THEN 0 - DigitsToNat(Tail(s))
  ELSE IF s[1] = "+" THEN DigitsToNat(Tail(s))
  ELSE DigitsToNat(s)

(* ------------------------------------------------------------------ *)
(* Values                                                              *)
(* ------------------------------------------------------------------ *)

Null == [t |-> "null"]
Bool(b) == [t |-> "bool", v |-> b]
Num(n) == [t |-> "num", v |-> n]
Str(s) == [t |-> "str", v |-> s]
Arr(a) == [t |-> "arr", v |-> a]
Obj(o) == [t |-> "obj", v |-> o]

\* a function inherited from Object.prototype, by its name
Fn(name) == [t |-> "fn", v |-> name]

\* typeof x === 'object' (null included)
TypeofObject(x) == x.t \in {"null", "arr", "obj"}

\* Object.keys(o)
Keys(o) == [i \in 1..Len(o.v) |-> o.v[i][1]]

\* o has k as an own property
HasOwn(o, k) == \E i \in 1..Len(o.v) : o.v[i][1] = k

S_constructor == <<"c", "o", "n", "s", "t", "r", "u", "c", "t", "o", "r">>
S_Object == <<"O", "b", "j", "e", "c", "t">>
S_proto == <<"_", "_", "p", "r", "o", "t", "o", "_", "_">>
S_toString == <<"t", "o", "S", "t", "r", "i", "n", "g">>

\* the properties every plain object inherits from Object.prototype
ObjectPrototypeFunctions ==
  {<<"c", "o", "n", "s", "t", "r", "u", "c", "t", "o", "r">>,
   <<"h", "a", "s", "O", "w", "n", "P", "r", "o", "p", "e", "r", "t", "y">>,
   <<"i", "s", "P", "r", "o", "t", "o", "t", "y", "p", "e", "O", "f">>,
   <<"p", "r", "o", "p", "e", "r", "t", "y", "I", "s", "E", "n", "u", "m", "e", "r", "a", "b", "l", "e">>,
   <<"t", "o", "L", "o", "c", "a", "l", "e", "S", "t", "r", "i", "n", "g">>,
   <<"t", "o", "S", "t", "r", "i", "n", "g">>,
   <<"v", "a", "l", "u", "e", "O", "f">>,
   <<"_", "_", "d", "e", "f", "i", "n", "e", "G", "e", "t", "t", "e", "r", "_", "_">>,
   <<"_", "_", "d", "e", "f", "i", "n", "e", "S", "e", "t", "t", "e", "r", "_", "_">>,
   <<"_", "_", "l", "o", "o", "k", "u", "p", "G", "e", "t", "t", "e", "r", "_", "_">>,
   <<"_", "_", "l", "o", "o", "k", "u", "p", "S", "e", "t", "t", "e", "r", "_", "_">>}

\* k in o: an own property or an inherited one
HasKey(o, k) ==
  HasOwn(o, k) \/ k \in ObjectPrototypeFunctions \/ k = S_proto

\* o[k]; undefined is rendered like null by escapeVal
Get(o, k) ==
  IF HasOwn(o, k) THEN o.v[CHOOSE i \in 1..Len(o.v) : o.v[i][1] = k][2]
  ELSE IF k = S_constructor THEN Fn(S_Object)
  ELSE IF k \in ObjectPrototypeFunctions THEN Fn(k)
  ELSE IF k = S_proto THEN Obj(<<>>)
  ELSE Null

S_null == <<"n", "u", "l", "l">>
S_true == <<"t", "r", "u", "e">>
S_false == <<"f", "a", "l", "s", "e">>
S_table == <<"t", "a", "b", "l", "e">>
S_object == <<"[", "o", "b", "j", "e", "c", "t", " ", "O", "b", "j", "e", "c", "t", "]">>
S_function == <<"f", "u", "n", "c", "t", "i", "o", "n", " ">>
S_native == <<"(", ")", " ", "{", " ", "[", "n", "a", "t", "i", "v", "e", " ", "c", "o", "d", "e", "]", " ", "}">>

\* What a call that raises a TypeError gives in place of a text: a
\* sequence that is no text, its one element being no character.
TypeError == <<"TypeError">>

\* str comes from a call that raised: a concatenation or a join of parts
\* holds the element of TypeError when one of its parts does, as the
\* exception leaves every expression it passes through
Raised(str) == \E n \in 1..Len(str) : str[n] = TypeError[1]

\* String(val).  An object is converted by its `toString`: the function
\* inherited from Object.prototype gives "[object Object]"; an own property
\* `toString` of a parsed JSON value is no function, the inherited valueOf
\* then returns the object itself, and the conversion raises a TypeError.
\* An array is joined with commas, null elements giving the empty text and
\* every other element being converted in turn.
RECURSIVE JsString(_)
JsString(x) ==
  CASE x.t = "null" -> S_null
    [] x.t = "bool" -> IF x.v THEN S_true ELSE S_false
    [] x.t = "num" -> NumToStr(x.v)
    [] x.t = "str" -> x.v
    [] x.t = "arr" ->
         LET parts == [i \in 1..Len(x.v) |->
                         IF x.v[i].t = "null" THEN <<>> ELSE JsString(x.v[i])]
             str == Join(parts, <<",">>)
         IN IF Raised(str) THEN TypeError ELSE str
    [] x.t = "obj" -> IF HasOwn(x, S_toString) THEN TypeError ELSE S_object
    [] x.t = "fn" -> S_function \o x.v \o S_native

(* ------------------------------------------------------------------ *)
(* Encoder                                                             *)
(* ------------------------------------------------------------------ *)

\* escapeVal(val); it raises when String(val) does
escapeVal(val) ==
  IF val.t = "null" THEN S_null
  ELSE LET str == JsString(val)
       IN IF Raised(str) THEN TypeError
          ELSE IF \/ Includes(str, ",") \/ Includes(str, NL) \/ Includes(str, ":")
                  \/ Includes(str, QUOTE)
                  \/ StartsWith(str, <<"[">>) \/ StartsWith(str, <<"{">>)
          THEN <<QUOTE>> \o DoubleQuotes(str) \o <<QUOTE>>
          ELSE str

\* isUniformArray(arr), arr the sequence of the array's elements
isUniformArray(arr) ==
  IF Len(arr) = 0 THEN FALSE
  ELSE LET first == arr[1]
       IN IF first.t # "obj" THEN FALSE
          ELSE LET keys == Keys(first)
               IN IF Len(keys) = 0 THEN FALSE
                  ELSE \A n \in 1..Len(arr) :
                         /\ arr[n].t = "obj"
                         /\ Len(Keys(arr[n])) = Len(keys)
                         /\ \A j \in 1..Len(keys) : HasKey(arr[n], keys[j])

\* `[N]` of a header
CountTag(n) == <<"[">> \o NumToStr(n) \o <<"]">>

\* the recursive helper of convertToToon; key = <<>> stands for a null key
\* (every use of key in the source is guarded by its truthiness, and the
\* empty string is falsy as well).  A TypeError raised by escapeVal or by a
\* nested call leaves every map and every call on the way: the text built
\* around it holds the element of TypeError, and convertToToon gives
\* TypeError.
RECURSIVE encode(_, _, _)
encode(curr, indent, key) ==
  LET space == Spaces(indent)
      hasKey == key # <<>>
      prefix == IF hasKey THEN space \o key \o <<":">> ELSE <<>>
  IN
  CASE curr.t = "null" -> prefix \o <<" ">> \o S_null
    [] curr.t = "arr" ->
         LET a == curr.v
             N == Len(a)
         IN IF N = 0 THEN prefix \o <<" ", "[", "]">>
            ELSE IF \A n \in 1..N : ~TypeofObject(a[n])
            THEN LET header == space \o (IF hasKey THEN key ELSE <<>>)
                                 \o CountTag(N) \o <<":">>
                 IN header \o <<" ">>
                      \o Join([n \in 1..N |-> escapeVal(a[n])], <<",">>)
            ELSE IF isUniformArray(a)
            THEN LET keys == Keys(a[1])
                     header == space \o (IF hasKey THEN key ELSE S_table)
                                 \o CountTag(N) \o <<"{">>
                                 \o Join(keys, <<",">>) \o <<"}", ":">>
                     rows == Join(
                       [n \in 1..N |->
                          space \o <<" ", " ">>
                            \o Join([j \in 1..Len(keys) |->
                                       escapeVal(Get(a[n], keys[j]))], <<",">>)],
                       <<NL>>)
                 IN header \o <<NL>> \o rows
            ELSE LET listHeader == IF hasKey THEN prefix ELSE <<>>
                     listItems == Join(
                       [n \in 1..N |->
                          IF a[n].t \in {"arr", "obj"}
                          THEN space \o <<" ", " ", "-", " ">>
                                 \o TrimStart(encode(a[n], indent + 1, <<>>))
                          ELSE space \o <<" ", " ", "-", " ">> \o escapeVal(a[n])],
                       <<NL>>)
                 IN IF listHeader # <<>> THEN listHeader \o <<NL>> \o listItems
                    ELSE listItems
    [] curr.t = "obj" ->
         LET entries == curr.v
         IN IF Len(entries) = 0 THEN prefix \o <<" ", "{", "}">>
            ELSE LET lines == Join(
                       [n \in 1..Len(entries) |->
                          LET k == entries[n][1]
                              v == entries[n][2]
                          IN IF v.t \in {"arr", "obj"}
                             THEN encode(v, indent + (IF hasKey THEN 1 ELSE 0), k)
                             ELSE space \o (IF hasKey THEN <<" ", " ">> ELSE <<>>)
                                    \o k \o <<":", " ">> \o escapeVal(v)],
                       <<NL>>)
                 IN IF hasKey THEN prefix \o <<NL>> \o lines ELSE lines
    [] OTHER -> prefix \o <<" ">> \o escapeVal(curr)

\* convertToToon(data); TypeError when the encoding raises
convertToToon(data) ==
  LET str == encode(data, 0, <<>>)
  IN IF Raised(str) THEN TypeError ELSE Trim(str)

(* ------------------------------------------------------------------ *)
(* calculateTokenStats                                                 *)
(* ------------------------------------------------------------------ *)

\* the results of a division by zero: 0 / 0 and a negative number / 0
NaN == [t |-> "NaN"]
NegInfinity == [t |-> "-Infinity"]

\* Math.ceil(n / 4)
CeilQuarter(n) == (n + 3) \div 4

\* Math.round((num / den) * 100) had it cut the fraction off
FloorPercent(num, den) == (100 * num) \div den

\* Math.round((num / den) * 100) for den > 0: the nearest integer, a half
\* rounded up.  For the lengths used here the floating-point product is on
\* the same side of every half as the exact quotient.
RoundPercent(num, den) == (200 * num + den) \div (2 * den)

\* the savingsPercent expression
savingsPercent(jsonChars, toonChars) ==
  IF jsonChars = 0
  THEN IF toonChars = 0 THEN NaN ELSE NegInfinity
  ELSE Num(RoundPercent(jsonChars - toonChars, jsonChars))

\* calculateTokenStats(jsonStr, toonStr)
calculateTokenStats(jsonStr, toonStr) ==
  LET jsonChars == Len(jsonStr)
      toonChars == Len(toonStr)
      estJson == CeilQuarter(jsonChars)
      estToon == CeilQuarter(toonChars)
  IN [jsonChars |-> jsonChars,
      toonChars |-> toonChars,
      savingsPercent |-> savingsPercent(jsonChars, toonChars),
      estimatedTokensJson |-> estJson,
      estimatedTokensToon |-> estToon]

(* ------------------------------------------------------------------ *)
(* Scalar parsing and the CSV-cell scanner                             *)
(* ------------------------------------------------------------------ *)

\* parseValue(val)
parseValue(raw) ==
  LET val == Trim(raw)
  IN IF val = S_null THEN Null
     ELSE IF val = S_true THEN Bool(TRUE)
     ELSE IF val = S_false THEN Bool(FALSE)
     ELSE IF IsNumeric(val) /\ val # <<>> THEN Num(ToNumber(val))
     ELSE IF StartsWith(val, <<QUOTE>>) /\ EndsWith(val, <<QUOTE>>)
          THEN Str(CollapseQuotes(SubSeq(val, 2, Len(val) - 1)))
     ELSE Str(val)

\* the loop of parseCSV from position i on
RECURSIVE csvScan(_, _, _, _, _)
csvScan(str, i, current, inQuotes, result) ==
  IF i > Len(str) THEN Append(result, parseValue(current))
  ELSE LET char == str[i]
       IN IF char = QUOTE
          THEN IF inQuotes /\ i + 1 <= Len(str) /\ str[i + 1] = QUOTE
               THEN csvScan(str, i + 2, Append(current, QUOTE), inQuotes, result)
               ELSE csvScan(str, i + 1, current, ~inQuotes, result)
          ELSE IF char = "," /\ ~inQuotes
               THEN csvScan(str, i + 1, <<>>, inQuotes,
                            Append(result, parseValue(current)))
          ELSE csvScan(str, i + 1, Append(current, char), inQuotes, result)

\* parseCSV(str)
parseCSV(str) == csvScan(str, 1, <<>>, FALSE, <<>>)

(* ------------------------------------------------------------------ *)
(* Decoder: the objects it builds                                      *)
(* ------------------------------------------------------------------ *)

\* The decoder mutates containers through references held by `root` and by
\* the frames of `stack`, so containers live in a heap: a sequence of cells
\* addressed by position.  A cell is an object (`ents`: its properties in
\* enumeration order) or an array (`items`: its elements, `ents`: its named
\* properties); `proto` is its prototype.  A heap value is a scalar or a
\* reference to a cell.
Ref(id) == [t |-> "ref", v |-> id]

\* the prototype a container is created with: Object.prototype for {},
\* Array.prototype (which inherits from Object.prototype) for []
StdProto == [t |-> "std"]

NewObjCell == [kind |-> "obj", ents |-> <<>>, items |-> <<>>, proto |-> StdProto]

NewArrCell(items) ==
  [kind |-> "arr", ents |-> <<>>, items |-> items, proto |-> StdProto]

\* 2^32 - 2, the largest array index, in digits
MaxArrayIndex == <<"4", "2", "9", "4", "9", "6", "7", "2", "9", "4">>

\* a <= b for two numerals of the same length
DigitsLeq(a, b) ==
  \/ a = b
  \/ \E n \in 1..Len(a) :
       /\ DigitVal(a[n]) < DigitVal(b[n])
       /\ \A m \in 1..(n - 1) : a[m] = b[m]

\* a canonical array index: the numeral of an integer from 0 to 2^32 - 2
\* ("0", "7", "12"; not "01", not "4294967295")
IsArrayIndex(key) ==
  /\ AllDigits(key)
  /\ Len(key) = 1 \/ key[1] # "0"
  /\ \/ Len(key) < Len(MaxArrayIndex)
     \/ Len(key) = Len(MaxArrayIndex) /\ DigitsLeq(key, MaxArrayIndex)

\* key is an own property in the property list ents
HasEnt(ents, key) == \E n \in 1..Len(ents) : ents[n][1] = key

\* the own property key of a property list becomes val: an existing key
\* keeps its place, an integer-like key is enumerated before the string keys
\* in ascending order, any other key is appended
OwnSet(ents, key, val) ==
  IF HasEnt(ents, key)
  THEN [n \in 1..Len(ents) |->
          IF ents[n][1] = key THEN <<key, val>> ELSE ents[n]]
  ELSE IF IsArrayIndex(key)
  THEN LET before == Cardinality({n \in 1..Len(ents) :
                        /\ IsArrayIndex(ents[n][1])
                        /\ DigitsToNat(ents[n][1]) < DigitsToNat(key)})
       IN SubSeq(ents, 1, before) \o <<<<key, val>>>>
            \o SubSeq(ents, before + 1, Len(ents))
  ELSE Append(ents, <<key, val>>)

\* the lookup of `__proto__` along the prototype chain of a cell ends at the
\* accessor of Object.prototype: no prototype on the way is null, and none
\* has `__proto__` as a property of its own
RECURSIVE InheritsProtoAccessor(_, _)
InheritsProtoAccessor(cell, heap) ==
  IF cell.proto.t = "std" THEN TRUE
  ELSE IF cell.proto.t = "null" THEN FALSE
  ELSE /\ ~HasEnt(heap[cell.proto.v].ents, S_proto)
       /\ InheritsProtoAccessor(heap[cell.proto.v], heap)

\* o[key] = val on the properties of a container o of the heap.  An
\* assignment to `__proto__` that reaches the accessor of Object.prototype
\* makes no property: it sets the prototype when val is an object or null
\* and does nothing for another val.  Once the chain no longer leads to the
\* accessor (a prototype was set to null), `__proto__` is a key as any other.
ObjSet(o, key, val, heap) ==
  IF key = S_proto /\ ~HasEnt(o.ents, key) /\ InheritsProtoAccessor(o, heap)
  THEN IF val.t \in {"null", "ref"} THEN [o EXCEPT !.proto = val] ELSE o
  ELSE [o EXCEPT !.ents = OwnSet(o.ents, key, val)]

S_length == <<"l", "e", "n", "g", "t", "h">>

\* the length an array takes by a.length = val: ToNumber(val) when that is
\* an integer from 0 to 2^32 - 1, and -1 when the assignment raises a
\* RangeError (Invalid array length).  The numbers of the texts decoded here
\* stay below 2^32, so only the sign is tested.
ArrayLength(val) ==
  LET n == CASE val.t = "null" -> 0
             [] val.t = "bool" -> IF val.v THEN 1 ELSE 0
             [] val.t = "num" -> val.v
             [] val.t = "str" ->
                  IF IsNumeric(Trim(val.v)) THEN ToNumber(Trim(val.v)) ELSE -1
             [] OTHER -> -1
  IN IF n >= 0 THEN n ELSE -1

\* a[key] = val on an array: an index writes (and, past the end, extends
\* with holes, read back as null) the elements; `length` cuts or extends
\* the elements; another key is a property as of an object
ArrSet(cell, key, val, heap) ==
  IF key = S_length
  THEN LET len == ArrayLength(val)
       IN IF len < 0 THEN cell
          ELSE [cell EXCEPT !.items =
                  [n \in 1..len |->
                     IF n <= Len(cell.items) THEN cell.items[n] ELSE Null]]
  ELSE IF IsArrayIndex(key)
  THEN LET idx == DigitsToNat(key) + 1
       IN [cell EXCEPT !.items =
             [n \in 1..(IF idx > Len(cell.items) THEN idx ELSE Len(cell.items)) |->
                IF n = idx THEN val
                ELSE IF n <= Len(cell.items) THEN cell.items[n] ELSE Null]]
  ELSE ObjSet(cell, key, val, heap)

\* container[key] = val
CellSet(cell, key, val, heap) ==
  IF cell.kind = "arr" THEN ArrSet(cell, key, val, heap)
  ELSE ObjSet(cell, key, val, heap)

\* the value a reference stands for, as JSON.stringify and a deep comparison
\* of elements and properties of plain objects see it
RECURSIVE Materialize(_, _)
Materialize(hv, heap) ==
  IF hv.t # "ref" THEN hv
  ELSE LET cell == heap[hv.v]
       IN IF cell.kind = "arr"
          THEN Arr([n \in 1..Len(cell.items) |-> Materialize(cell.items[n], heap)])
          ELSE Obj([n \in 1..Len(cell.ents) |->
                      <<cell.ents[n][1], Materialize(cell.ents[n][2], heap)>>])

(* ------------------------------------------------------------------ *)
(* Decoder: line classification (the three regular expressions)        *)
(* ------------------------------------------------------------------ *)

\* length of the longest prefix of word characters: the only way \w+ can
\* be followed by '[' or ':'
WordRun(s) ==
  LET idx == {n \in 1..Len(s) : s[n] \notin WordChars}
  IN IF idx = {} THEN Len(s) ELSE MinOf(idx) - 1

\* '.' of a regular expression without the s flag
NoLineTerminator(s) == \A n \in 1..Len(s) : s[n] \notin {NL, "\r"}

\* length of the prefix matched by ^\w*\[\d+\], 0 when there is none
CountPrefix(s) ==
  LET w == WordRun(s)
      rest == SubSeq(s, w + 2, Len(s))
      nd == {n \in 1..Len(rest) : rest[n] \notin DigitSet}
      d == IF nd = {} THEN Len(rest) ELSE MinOf(nd) - 1
  IN IF /\ Len(s) >= w + 3
        /\ s[w + 1] = "["
        /\ d >= 1
        /\ Len(s) >= w + 1 + d + 1
        /\ s[w + 1 + d + 1] = "]"
     THEN w + 1 + d + 1
     ELSE 0

\* content.match(/^(?:(\w+)\[\d+\]|table\[\d+\])\{(.+)\}:$/)
tableStartMatch(content) ==
  LET p == CountPrefix(content)
  IN /\ WordRun(content) >= 1
     /\ p > 0
     /\ Len(content) >= p + 4
     /\ content[p + 1] = "{"
     /\ EndsWith(content, <<"}", ":">>)
     /\ NoLineTerminator(SubSeq(content, p + 2, Len(content) - 2))

\* tableStart[2]
tableStartHeaders(content) ==
  SubSeq(content, CountPrefix(content) + 2, Len(content) - 2)

\* content.match(/^(?:(\w+)\[\d+\]|\[\d+\]):\s*(.*)$/)
arrayStartMatch(content) ==
  LET p == CountPrefix(content)
  IN /\ p > 0
     /\ Len(content) >= p + 1
     /\ content[p + 1] = ":"
     /\ NoLineTerminator(TrimStart(SubSeq(content, p + 2, Len(content))))

\* arrayStart[2]
arrayStartCells(content) ==
  TrimStart(SubSeq(content, CountPrefix(content) + 2, Len(content)))

\* content.match(/^(\w+):(?:\s*(.*))?$/)
keyValMatch(content) ==
  LET w == WordRun(content)
  IN /\ w >= 1
     /\ Len(content) >= w + 1
     /\ content[w + 1] = ":"
     /\ NoLineTerminator(TrimStart(SubSeq(content, w + 2, Len(content))))

\* keyVal[1]
keyValKey(content) == SubSeq(content, 1, WordRun(content))

\* keyVal[2]
keyValStr(content) == TrimStart(SubSeq(content, WordRun(content) + 2, Len(content)))

\* content.split('[')[0]
headerKey(content) == Split(content, "[")[1]

(* ------------------------------------------------------------------ *)
(* Decoder: ToonDecoder                                                *)
(* ------------------------------------------------------------------ *)

\* The fields of a ToonDecoder (root, stack) with the heap they point into:
\* the state right after `new ToonDecoder()`.
NewDecoder == [root |-> Null, heap |-> <<>>, stack |-> <<>>]

\* the pop loop, had it been an `if`: one frame popped at most
popFramesOnce(stack, indent) ==
  IF Len(stack) > 0 /\ indent <= stack[Len(stack)].indent
  THEN SubSeq(stack, 1, Len(stack) - 1)
  ELSE stack

\* the pop loop, had it compared `indent < top.indent`
RECURSIVE popFramesStrict(_, _)
popFramesStrict(stack, indent) ==
  IF Len(stack) > 0 /\ indent < stack[Len(stack)].indent
  THEN popFramesStrict(SubSeq(stack, 1, Len(stack) - 1), indent)
  ELSE stack

\* the `while` loop at the head of processLine
RECURSIVE popFrames(_, _)
popFrames(stack, indent) ==
  IF Len(stack) > 0 /\ indent <= stack[Len(stack)].indent
  THEN popFrames(SubSeq(stack, 1, Len(stack) - 1), indent)
  ELSE stack

\* addToCurrent(key, val) on the decoder d
addToCurrent(d, key, val) ==
  IF Len(d.stack) = 0
  THEN IF d.root.t = "ref" /\ d.heap[d.root.v].kind # "arr"
       THEN [d EXCEPT !.heap[d.root.v] = CellSet(@, key, val, d.heap)]
       ELSE d
  ELSE LET parent == d.stack[Len(d.stack)]
       IN IF parent.type = "object"
          THEN [d EXCEPT !.heap[parent.container] = CellSet(@, key, val, d.heap)]
          ELSE d

\* which branch of processLine a line takes
LineClass(stack, line) ==
  LET content == Trim(line)
      st == popFrames(stack, LeadWS(line))
  IN IF tableStartMatch(content) THEN "tableStart"
     ELSE IF arrayStartMatch(content) THEN "arrayStart"
     ELSE IF keyValMatch(content) /\ ~StartsWith(content, <<"-">>)
          THEN IF keyValStr(content) = <<>> THEN "objectStart" ELSE "keyValue"
     ELSE IF Len(st) > 0 /\ st[Len(st)].type = "table" THEN "tableRow"
     ELSE IF StartsWith(content, <<"-", " ">>) THEN "listItem"
     ELSE "none"

\* branch 1 of processLine: table start
doTableStart(d, indent, content) ==
  LET isRoot == StartsWith(content, S_table)
      key == headerKey(content)
      headers == Split(tableStartHeaders(content), ",")
      id == Len(d.heap) + 1
      d1 == [d EXCEPT !.heap = Append(@, NewArrCell(<<>>))]
      d2 == IF isRoot THEN [d1 EXCEPT !.root = Ref(id)]
            ELSE addToCurrent(d1, key, Ref(id))
  IN [d2 EXCEPT !.stack = Append(@,
        [container |-> id, type |-> "table", indent |-> indent,
         headers |-> headers, key |-> <<>>])]

\* branch 2 of processLine, had it pushed a frame for the array as the
\* table branch does
doArrayStartPush(d, indent, content) ==
  LET isRoot == StartsWith(content, <<"[">>)
      key == headerKey(content)
      cells == arrayStartCells(content)
      values == IF cells # <<>> THEN parseCSV(cells) ELSE <<>>
      id == Len(d.heap) + 1
      d1 == [d EXCEPT !.heap = Append(@, NewArrCell(values))]
      d2 == IF isRoot THEN [d1 EXCEPT !.root = Ref(id)]
            ELSE addToCurrent(d1, key, Ref(id))
  IN [d2 EXCEPT !.stack = Append(@,
        [container |-> id, type |-> "array", indent |-> indent,
         headers |-> <<>>, key |-> <<>>])]

\* branch 2 of processLine: primitive array
doArrayStart(d, indent, content) ==
  LET isRoot == StartsWith(content, <<"[">>)
      key == headerKey(content)
      cells == arrayStartCells(content)
      values == IF cells # <<>> THEN parseCSV(cells) ELSE <<>>
      id == Len(d.heap) + 1
      d1 == [d EXCEPT !.heap = Append(@, NewArrCell(values))]
  IN IF isRoot THEN [d1 EXCEPT !.root = Ref(id)]
     ELSE addToCurrent(d1, key, Ref(id))

\* branch 3 of processLine, `!valStr`: object start
doObjectStart(d, indent, content) ==
  LET key == keyValKey(content)
      id == Len(d.heap) + 1
      d1 == [d EXCEPT !.heap = Append(@, NewObjCell)]
      d2 == IF Len(d1.stack) = 0 /\ d1.root.t = "null"
            THEN [d1 EXCEPT !.heap = Append(@, NewObjCell), !.root = Ref(id + 1)]
            ELSE d1
      d3 == addToCurrent(d2, key, Ref(id))
  IN [d3 EXCEPT !.stack = Append(@,
        [container |-> id, type |-> "object", indent |-> indent,
         headers |-> <<>>, key |-> key])]

\* branch 3 of processLine, the `else`: primitive value
doKeyValue(d, indent, content) ==
  LET key == keyValKey(content)
      val == parseValue(keyValStr(content))
  IN IF Len(d.stack) = 0
     THEN LET d1 == IF d.root.t = "null"
                    THEN [d EXCEPT !.heap = Append(@, NewObjCell),
                                   !.root = Ref(Len(d.heap) + 1)]
                    ELSE d
          IN [d1 EXCEPT !.heap[d1.root.v] = CellSet(@, key, val, d1.heap)]
     ELSE addToCurrent(d, key, val)

\* `this.root[key] = val` of the primitive-value branch raises a RangeError:
\* the root is an array, the key is `length` and val is no array length
keyValueThrows(d, content) ==
  /\ Len(d.stack) = 0
  /\ d.root.t = "ref"
  /\ d.heap[d.root.v].kind = "arr"
  /\ keyValKey(content) = S_length
  /\ ArrayLength(parseValue(keyValStr(content))) < 0

\* the row object built by the forEach over ctx.headers from `row = {}`;
\* the cells are scalars, so the prototype of the row is never a container
\* and its `__proto__` lookup needs no heap
RECURSIVE rowEntries(_, _, _, _)
rowEntries(headers, values, idx, row) ==
  IF idx > Len(headers) THEN row
  ELSE rowEntries(headers, values, idx + 1,
         ObjSet(row, headers[idx],
                IF idx <= Len(values) THEN values[idx] ELSE Null, <<>>))

\* branch 4 of processLine: table row
doTableRow(d, indent, content) ==
  LET ctx == d.stack[Len(d.stack)]
      values == parseCSV(content)
      id == Len(d.heap) + 1
      row == rowEntries(ctx.headers, values, 1, NewObjCell)
      d1 == [d EXCEPT !.heap = Append(@, row)]
  IN [d1 EXCEPT !.heap[ctx.container].items = Append(@, Ref(id))]

\* processLine(line)
processLine(d, line) ==
  LET indent == LeadWS(line)
      content == Trim(line)
      cls == LineClass(d.stack, line)
      d0 == [d EXCEPT !.stack = popFrames(d.stack, indent)]
  IN CASE cls = "tableStart" -> doTableStart(d0, indent, content)
       [] cls = "arrayStart" -> doArrayStart(d0, indent, content)
       [] cls = "objectStart" -> doObjectStart(d0, indent, content)
       [] cls = "keyValue" -> doKeyValue(d0, indent, content)
       [] cls = "tableRow" -> doTableRow(d0, indent, content)
       [] OTHER -> d0

\* processLine(line) raises an error
lineThrows(d, line) ==
  /\ LineClass(d.stack, line) = "keyValue"
  /\ keyValueThrows([d EXCEPT !.stack = popFrames(d.stack, LeadWS(line))],
                    Trim(line))

\* the loop of decode(toonStr) from line n on raises an error
RECURSIVE decodeThrows(_, _, _)
decodeThrows(d, lines, n) ==
  IF n > Len(lines) THEN FALSE
  ELSE IF Trim(lines[n]) = <<>> THEN decodeThrows(d, lines, n + 1)
  ELSE \/ lineThrows(d, lines[n])
       \/ decodeThrows(processLine(d, lines[n]), lines, n + 1)

\* what a call that raised an error leaves in place of a returned value
Thrown == [t |-> "thrown"]

\* the loop of decode(toonStr) from line n on, had it no `continue` for the
\* lines that trim to nothing
RECURSIVE decodeLinesNoSkip(_, _, _)
decodeLinesNoSkip(d, lines, n) ==
  IF n > Len(lines) THEN d
  ELSE decodeLinesNoSkip(processLine(d, lines[n]), lines, n + 1)

\* the loop of decode(toonStr) from line n on
RECURSIVE decodeLines(_, _, _)
decodeLines(d, lines, n) ==
  IF n > Len(lines) THEN d
  ELSE IF Trim(lines[n]) = <<>> THEN decodeLines(d, lines, n + 1)
  ELSE decodeLines(processLine(d, lines[n]), lines, n + 1)

\* decodeToon(str): new ToonDecoder().decode(str)
decodeToon(str) ==
  LET d == decodeLines(NewDecoder, Split(str, NL), 1)
  IN IF decodeThrows(NewDecoder, Split(str, NL), 1) THEN Thrown
     ELSE Materialize(d.root, d.heap)

(* ------------------------------------------------------------------ *)
(* Inputs                                                              *)
(* ------------------------------------------------------------------ *)

MaxStrLen == 3
MaxArrLen == 2
MaxLines == 3
MaxCalls == 2
MaxChars == 8

KA == <<"a">>
KB == <<"b">>

\* sequences over S of length lo..hi
SeqsOf(S, lo, hi) == UNION {[1..n -> S] : n \in lo..hi}

\* the characters of the strings given to the scalar codec: a letter, a
\* digit, a sign, a blank, and every character escapeVal looks for
StrAlphabet == {"a", "1", "-", " ", ",", ":", QUOTE, NL, "[", "{"}

Strings == SeqsOf(StrAlphabet, 0, MaxStrLen) \cup {S_null, S_true, S_false}

\* the scalars the encoder can be given
Scalars ==
  {Null, Bool(TRUE), Bool(FALSE), Num(0), Num(1), Num(12), Num(-1)}
    \cup {Str(s) : s \in Strings}

\* scalars used inside containers
ScalarPool ==
  {Null, Bool(TRUE), Num(1), Str(<<>>), Str(<<"a">>), Str(<<"a", ",", "b">>),
   Str(<<"a", NL, "b">>), Str(S_null)}

\* cells of the objects used as array elements
CellPool == {Num(1), Str(<<>>)}

\* scalars used as array elements
ElemPool == {Null, Num(1), Str(<<>>), Str(<<"a", ",", "b">>)}

\* objects over the keys a, b in either order
ObjectsOver(V) ==
  {Obj(<<>>)}
    \cup {Obj(<<<<k, v>>>>) : k \in {KA, KB}, v \in V}
    \cup {Obj(<<<<KA, v>>, <<KB, w>>>>) : v \in V, w \in V}
    \cup {Obj(<<<<KB, v>>, <<KA, w>>>>) : v \in V, w \in V}

RowObjects == ObjectsOver(CellPool)

ArrayElems ==
  ElemPool \cup RowObjects
    \cup {Arr(<<>>), Arr(<<Num(1)>>), Obj(<<<<KA, Arr(<<Num(1)>>)>>>>),
          Obj(<<<<KA, Obj(<<<<KB, Num(1)>>>>)>>>>), Obj(<<<<KA, Str(<<"a", NL, "b">>)>>>>),
          Obj(<<<<S_toString, Num(1)>>>>),
          Obj(<<<<KA, Num(1)>>, <<S_table, Arr(<<Obj(<<<<KB, Num(1)>>>>)>>)>>>>),
          Arr(<<Obj(<<<<KB, Num(1)>>>>)>>)}

Arrays == {Arr(a) : a \in SeqsOf(ArrayElems, 0, MaxArrLen)}

\* values stored under the keys of a root object
FieldElems ==
  {Null, Num(1), Str(<<>>), Obj(<<<<KA, Num(1)>>>>),
   Obj(<<<<KA, Num(1)>>, <<KB, Str(<<>>)>>>>),
   Obj(<<<<KB, Str(<<"a">>)>>, <<KA, Num(1)>>>>)}

FieldArrays == {Arr(a) : a \in SeqsOf(FieldElems, 0, MaxArrLen)}

FieldObjects ==
  ObjectsOver({Num(1), Obj(<<<<KA, Num(1)>>>>), Obj(<<>>), Arr(<<Num(1)>>)})

FieldValues == ScalarPool \cup FieldArrays \cup FieldObjects

\* root keys: a, b, and a key that begins with "table"
RootKeyOrders == {<<KA, KB>>, <<KB, KA>>, <<S_table, KA>>, <<KA, S_table>>}

\* root objects that have `__proto__` as an own key, as JSON.parse makes them
ProtoKeyObjects ==
  {Obj(<<<<S_proto, Num(1)>>>>),
   Obj(<<<<KA, Num(1)>>, <<S_proto, Obj(<<<<KB, Num(1)>>>>)>>>>)}

RootObjects ==
  {Obj(<<>>)}
    \cup ProtoKeyObjects
    \cup {Obj(<<<<k, v>>>>) : k \in {KA, S_table}, v \in FieldValues}
    \cup {Obj(<<<<ks[1], v>>, <<ks[2], w>>>>) :
            ks \in RootKeyOrders, v \in FieldValues, w \in {Num(1), Str(<<"a">>)}}
    \cup {Obj(<<<<ks[1], w>>, <<ks[2], v>>>>) :
            ks \in RootKeyOrders, v \in FieldValues, w \in {Num(1), Str(<<"a">>)}}

\* values with a table cell that String cannot convert: an object with a
\* key `toString`, alone and inside an array
ToStringCells ==
  {Arr(<<Obj(<<<<KA, Obj(<<<<S_toString, Num(1)>>>>)>>>>)>>),
   Arr(<<Obj(<<<<KA, Arr(<<Num(1), Obj(<<<<S_toString, Null>>>>)>>)>>>>)>>),
   Obj(<<<<KA, Arr(<<Obj(<<<<KB, Obj(<<<<S_toString, Str(<<"a">>)>>>>)>>>>)>>)>>>>)}

\* the values given to convertToToon
Values == ScalarPool \cup Arrays \cup RootObjects \cup ToStringCells

\* the lines raw texts are made of
LinePool ==
  { <<"a", ":", " ", "1">>,
    <<"a", ":">>,
    <<" ", " ", "b", ":", " ", "x">>,
    <<"b", "[", "1", "]", "{", "a", "}", ":">>,
    <<"t", "a", "b", "l", "e", "[", "1", "]", "{", "a", ",", "b", "}", ":">>,
    <<" ", " ", "1", ",", "x">>,
    <<" ", " ", "7">>,
    <<"t", "a", "b", "l", "e", "[", "2", "]", "{", "a", ",", "1", ",", "a", "}", ":">>,
    <<"[", "2", "]", ":", " ", "1", ",", "2">>,
    <<"-", " ", "1">>,
    <<"l", "e", "n", "g", "t", "h", ":", " ", "x">>,
    <<" ", " ">> }

\* lines with keys that JavaScript does not keep as ordinary properties in
\* insertion order: `__proto__` (as a scalar, as an object, under the object
\* frame, as a table column, in a root array) and an integer-like header
KeyLinePool ==
  { S_proto \o <<":", " ">> \o S_null,
    S_proto \o <<":", " ", "1">>,
    S_proto \o <<":">>,
    <<" ", " ">> \o S_proto \o <<":", " ">> \o S_null,
    S_table \o <<"[", "1", "]", "{">> \o S_proto \o <<",", "a", ",">>
      \o S_proto \o <<"}", ":">>,
    S_table \o <<"[", "1", "]", "{", "a", ",", "1", "}", ":">>,
    <<" ", " ">> \o S_null \o <<",", "1", ",", "2">>,
    <<"[", "0", "]", ":">> }

\* the raw texts of n lines given to decode
Texts(n) ==
  {Join(ls, <<NL>>) : ls \in [1..n -> LinePool] \cup [1..n -> KeyLinePool]}

NoInput == [t |-> "none"]

\* lengths beyond MaxChars given to calculateTokenStats
LongLens == {201, 202}

\* the texts given to calculateTokenStats, which reads their lengths only
StatTexts == {[n \in 1..len |-> "x"] : len \in (0..MaxChars) \cup LongLens}

NoStats == [t |-> "none"]

(* ------------------------------------------------------------------ *)
(* App: JSON texts, the integrity check, the inputs of the generate    *)
(* flow                                                                *)
(* ------------------------------------------------------------------ *)

BACKSLASH == "\\"

\* the characters of a string between the quotes of a JSON text
RECURSIVE JsonChars(_)
JsonChars(s) ==
  IF s = <<>> THEN <<>>
  ELSE (CASE Head(s) = QUOTE -> <<BACKSLASH, QUOTE>>
          [] Head(s) = BACKSLASH -> <<BACKSLASH, BACKSLASH>>
          [] Head(s) = NL -> <<BACKSLASH, "n">>
          [] OTHER -> <<Head(s)>>) \o JsonChars(Tail(s))

JsonQuote(s) == <<QUOTE>> \o JsonChars(s) \o <<QUOTE>>

\* JSON.stringify(x)
RECURSIVE JsonStringify(_)
JsonStringify(x) ==
  CASE x.t = "null" -> S_null
    [] x.t = "bool" -> IF x.v THEN S_true ELSE S_false
    [] x.t = "num" -> NumToStr(x.v)
    [] x.t = "str" -> JsonQuote(x.v)
    [] x.t = "arr" ->
         <<"[">> \o Join([n \in 1..Len(x.v) |-> JsonStringify(x.v[n])], <<",">>)
           \o <<"]">>
    [] x.t = "obj" ->
         <<"{">>
           \o Join([n \in 1..Len(x.v) |->
                      JsonQuote(x.v[n][1]) \o <<":">> \o JsonStringify(x.v[n][2])],
                   <<",">>)
           \o <<"}">>

\* JSON.stringify(x, null, 2) below the indentation ind
RECURSIVE JsonIndented(_, _)
JsonIndented(x, ind) ==
  LET inner == ind \o <<" ", " ">>
      sep == <<",", NL>> \o inner
  IN CASE x.t = "arr" /\ Len(x.v) > 0 ->
            <<"[", NL>> \o inner
              \o Join([n \in 1..Len(x.v) |-> JsonIndented(x.v[n], inner)], sep)
              \o <<NL>> \o ind \o <<"]">>
       [] x.t = "obj" /\ Len(x.v) > 0 ->
            <<"{", NL>> \o inner
              \o Join([n \in 1..Len(x.v) |->
                         JsonQuote(x.v[n][1]) \o <<":", " ">>
                           \o JsonIndented(x.v[n][2], inner)], sep)
              \o <<NL>> \o ind \o <<"}">>
       [] OTHER -> JsonStringify(x)

\* `verified` of handleGenerate: decodeToon returned, and the decoded value
\* and the data have the same JSON text
verified(data, toonStr) ==
  LET decoded == decodeToon(toonStr)
  IN IF decoded = Thrown THEN FALSE
     ELSE JsonStringify(decoded) = JsonStringify(data)

EXAMPLE_PROMPT ==
  <<"A", " ", "d", "a", "t", "a", "s", "e", "t", " ", "o", "f",
    " ", "2", "0", " ", "s", "p", "a", "c", "e", "s", "h", "i",
    "p", "s", " ", "w", "i", "t", "h", " ", "s", "t", "a", "t",
    "s", " ", "l", "i", "k", "e", " ", "s", "p", "e", "e", "d",
    ",", " ", "s", "h", "i", "e", "l", "d", " ", "c", "a", "p",
    "a", "c", "i", "t", "y", ",", " ", "c", "r", "e", "w", " ",
    "s", "i", "z", "e", ",", " ", "a", "n", "d", " ", "c", "a",
    "p", "t", "a", "i", "n", " ", "n", "a", "m", "e", ".">>

\* the prompts typed into the text area: nothing, blanks, nine characters,
\* and the example
Prompts ==
  {<<>>, <<" ", " ">>, <<"s", "p", "a", "c", "e", "s", "h", "i", "p">>,
   EXAMPLE_PROMPT}

\* the validation effect on the prompt
validate(p) ==
  LET trimmed == Trim(p)
  IN IF trimmed = <<>> THEN "empty"
     ELSE IF Len(trimmed) < 10 THEN "short"
     ELSE "valid"

ViewModes == {"json", "toon", "visual"}

\* the data generateDataFromPrompt resolves to: a value that decodes to
\* itself, one that does not, one whose text makes decode raise, and one
\* for which convertToToon raises
AppData ==
  {Obj(<<<<KA, Num(1)>>>>),
   Arr(<<Str(<<>>)>>),
   Obj(<<<<S_table, Arr(<<Obj(<<<<KA, Num(1)>>>>)>>)>>,
         <<S_length, Str(<<"x">>)>>>>),
   Arr(<<Obj(<<<<KA, Obj(<<<<S_toString, Num(1)>>>>)>>>>)>>)}

\* the message of the TypeError raised by String(val)
S_CannotConvert ==
  <<"C", "a", "n", "n", "o", "t", " ", "c", "o", "n", "v", "e", "r", "t", " ",
    "o", "b", "j", "e", "c", "t", " ", "t", "o", " ", "p", "r", "i", "m", "i",
    "t", "i", "v", "e", " ", "v", "a", "l", "u", "e">>

S_NoResponseText ==
  <<"N", "o", " ", "r", "e", "s", "p", "o", "n", "s", "e", " ",
    "t", "e", "x", "t", " ", "f", "r", "o", "m", " ", "G", "e",
    "m", "i", "n", "i">>

MaxPending == 2

\* a call generateDataFromPrompt(p): waiting, resolved with data, or
\* rejected with an Error
Waiting(p) == [t |-> "waiting", prompt |-> p]

Resolved(data) == [t |-> "resolved", v |-> data]

Rejected(message) == [t |-> "rejected", v |-> message]

Outcomes == {Resolved(d) : d \in AppData} \cup {Rejected(S_NoResponseText)}

\* the sequence s without its i-th element
RemoveAt(s, i) == SubSeq(s, 1, i - 1) \o SubSeq(s, i + 1, Len(s))

(* ------------------------------------------------------------------ *)
(* State                                                               *)
(* ------------------------------------------------------------------ *)

VARIABLES
  pc,      \* what the caller does next
  input,   \* the value given to convertToToon or escapeVal, or NoInput
  text,    \* the text produced by the encoder, or the text given to decode
  cells,   \* the result of parseCSV(text)
  parsed,  \* the result of parseValue(text)
  stats,   \* the result of calculateTokenStats, or NoStats
  lines,   \* decode: toonStr.split('\n')
  pos,     \* decode: the loop index i, counted from 1
  root,    \* ToonDecoder.root
  heap,    \* the containers root and the frames refer to
  stack,   \* ToonDecoder.stack
  owned,   \* the decoder instance is held by the caller (not by decodeToon)
  calls,   \* decode calls made on this instance
  fed,     \* lines of raw text given to decode so far
  result   \* the value returned by the last decode call

\* the state of the App component
VARIABLES
  prompt,            \* the text of the prompt area
  validationStatus,  \* 'valid', 'empty' or 'short'
  status,            \* GenerationStatus
  jsonData,          \* the generated data, or Null
  jsonString,        \* JSON.stringify(data, null, 2), or ""
  toonString,        \* convertToToon(data), or ""
  appStats,          \* the stats state: a TokenStats, or NoStats for null
  viewMode,          \* ViewMode
  errorMsg,          \* the message of the error banner, or Null
  isVerified,        \* the integrity badge
  requests           \* the calls of generateDataFromPrompt not yet continued

appVars == <<prompt, validationStatus, status, jsonData, jsonString,
             toonString, appStats, viewMode, errorMsg, isVerified, requests>>

coreVars == <<pc, input, text, cells, parsed, stats, lines, pos, root, heap,
              stack, owned, calls, fed, result>>

vars == <<coreVars, appVars>>

decoderVars == <<lines, pos, root, heap, stack, owned, calls, fed, result>>

codecVars == <<cells, parsed, stats>>

\* the decoder instance as a record
Decoder == [root |-> root, heap |-> heap, stack |-> stack]

Init ==
  /\ pc = "idle"
  /\ input = NoInput
  /\ text = <<>>
  /\ cells = <<>>
  /\ parsed = Null
  /\ stats = NoStats
  /\ lines = <<>>
  /\ pos = 1
  /\ root = NewDecoder.root
  /\ heap = NewDecoder.heap
  /\ stack = NewDecoder.stack
  /\ owned = TRUE
  /\ calls = 0
  /\ fed = 0
  /\ result = Null
  /\ prompt = EXAMPLE_PROMPT
  /\ validationStatus = "valid"
  /\ status = "idle"
  /\ jsonData = Null
  /\ jsonString = <<>>
  /\ toonString = <<>>
  /\ appStats = NoStats
  /\ viewMode = "toon"
  /\ errorMsg = Null
  /\ isVerified = FALSE
  /\ requests = <<>>

(* ------------------------------------------------------------------ *)
(* Scalar codec applied to one value                                   *)
(* ------------------------------------------------------------------ *)

\* escapeVal(x)
Escape ==
  /\ pc = "idle"
  /\ calls = 0
  /\ \E x \in Scalars :
       /\ input' = x
       /\ text' = escapeVal(x)
  /\ pc' = "escaped"
  /\ UNCHANGED <<codecVars, decoderVars>>
  /\ UNCHANGED appVars

\* parseCSV(escapeVal(x))
ScanCell ==
  /\ pc = "escaped"
  /\ cells' = parseCSV(text)
  /\ pc' = "scanned"
  /\ UNCHANGED <<input, text, parsed, stats, decoderVars>>
  /\ UNCHANGED appVars

\* parseValue(escapeVal(x))
ParseCell ==
  /\ pc = "escaped"
  /\ parsed' = parseValue(text)
  /\ pc' = "parsed"
  /\ UNCHANGED <<input, text, cells, stats, decoderVars>>
  /\ UNCHANGED appVars

\* calculateTokenStats(jsonStr, toonStr)
Measure ==
  /\ pc = "idle"
  /\ calls = 0
  /\ \E jsonStr \in StatTexts : \E toonStr \in StatTexts :
       stats' = calculateTokenStats(jsonStr, toonStr)
  /\ pc' = "measured"
  /\ UNCHANGED <<input, text, cells, parsed, decoderVars>>
  /\ UNCHANGED appVars

(* ------------------------------------------------------------------ *)
(* Encoding, and the calls of decode                                   *)
(* ------------------------------------------------------------------ *)

\* convertToToon(v) returns a text
Generate ==
  /\ pc = "idle"
  /\ calls = 0
  /\ \E v \in Values :
       /\ convertToToon(v) # TypeError
       /\ input' = v
       /\ text' = convertToToon(v)
  /\ pc' = "encoded"
  /\ UNCHANGED <<codecVars, decoderVars>>
  /\ UNCHANGED appVars

\* convertToToon(v) raises a TypeError: no text is returned
GenerateThrows ==
  /\ pc = "idle"
  /\ calls = 0
  /\ \E v \in Values :
       /\ convertToToon(v) = TypeError
       /\ input' = v
  /\ pc' = "encodeThrown"
  /\ UNCHANGED <<text, codecVars, decoderVars>>
  /\ UNCHANGED appVars

\* decodeToon(toonStr) on the encoder's output: a new ToonDecoder, whose
\* decode splits the text
DecodeEncoded ==
  /\ pc = "encoded"
  /\ root' = NewDecoder.root
  /\ heap' = NewDecoder.heap
  /\ stack' = NewDecoder.stack
  /\ owned' = FALSE
  /\ calls' = 1
  /\ lines' = Split(text, NL)
  /\ pos' = 1
  /\ pc' = "decoding"
  /\ UNCHANGED <<input, text, codecVars, fed, result>>
  /\ UNCHANGED appVars

\* decodeToon(t) on a raw text
DecodeToonText ==
  /\ pc \in {"idle", "returned", "thrown"}
  /\ input = NoInput
  /\ owned
  /\ fed < MaxLines
  /\ \E n \in 1..(MaxLines - fed) : \E t \in Texts(n) :
       /\ fed' = fed + n
       /\ text' = t
       /\ lines' = Split(t, NL)
  /\ root' = NewDecoder.root
  /\ heap' = NewDecoder.heap
  /\ stack' = NewDecoder.stack
  /\ owned' = FALSE
  /\ calls' = 1
  /\ pos' = 1
  /\ pc' = "decoding"
  /\ UNCHANGED <<input, codecVars, result>>
  /\ UNCHANGED appVars

\* decoder.decode(t) on the instance the caller holds: the fields keep what
\* the previous call left in them
DecoderDecode ==
  /\ pc \in {"idle", "returned", "thrown"}
  /\ input = NoInput
  /\ owned
  /\ calls < MaxCalls
  /\ fed < MaxLines
  /\ \E n \in 1..(MaxLines - fed) : \E t \in Texts(n) :
       /\ fed' = fed + n
       /\ text' = t
       /\ lines' = Split(t, NL)
  /\ calls' = calls + 1
  /\ pos' = 1
  /\ pc' = "decoding"
  /\ UNCHANGED <<input, codecVars, root, heap, stack, owned, result>>
  /\ UNCHANGED appVars

(* ------------------------------------------------------------------ *)
(* decode: one iteration of the loop per step                          *)
(* ------------------------------------------------------------------ *)

AtLine == pc = "decoding" /\ pos <= Len(lines)

\* the decoder's fields become those of d, and the loop moves on
Advance(d) ==
  /\ root' = d.root
  /\ heap' = d.heap
  /\ stack' = d.stack
  /\ pos' = pos + 1
  /\ UNCHANGED <<pc, input, text, codecVars, lines, owned, calls, fed, result>>
  /\ UNCHANGED appVars

\* the decoder after the pop loop of processLine
Popped == [Decoder EXCEPT !.stack = popFrames(stack, LeadWS(lines[pos]))]

\* `if (!line.trim()) continue`
SkipBlank ==
  /\ AtLine
  /\ Trim(lines[pos]) = <<>>
  /\ Advance(Decoder)

Classified(cls) ==
  /\ AtLine
  /\ Trim(lines[pos]) # <<>>
  /\ LineClass(stack, lines[pos]) = cls

LineTableStart ==
  /\ Classified("tableStart")
  /\ Advance(doTableStart(Popped, LeadWS(lines[pos]), Trim(lines[pos])))

LineArrayStart ==
  /\ Classified("arrayStart")
  /\ Advance(doArrayStart(Popped, LeadWS(lines[pos]), Trim(lines[pos])))

LineObjectStart ==
  /\ Classified("objectStart")
  /\ Advance(doObjectStart(Popped, LeadWS(lines[pos]), Trim(lines[pos])))

LineKeyValue ==
  /\ Classified("keyValue")
  /\ ~keyValueThrows(Popped, Trim(lines[pos]))
  /\ Advance(doKeyValue(Popped, LeadWS(lines[pos]), Trim(lines[pos])))

LineTableRow ==
  /\ Classified("tableRow")
  /\ Advance(doTableRow(Popped, LeadWS(lines[pos]), Trim(lines[pos])))

\* the assignment of the primitive-value branch raises a RangeError, which
\* leaves decode: the pop loop has run, no value is returned
LineKeyValueThrows ==
  /\ Classified("keyValue")
  /\ keyValueThrows(Popped, Trim(lines[pos]))
  /\ stack' = Popped.stack
  /\ result' = Thrown
  /\ pc' = "thrown"
  /\ UNCHANGED <<input, text, codecVars, lines, pos, root, heap, owned,
                 calls, fed>>
  /\ UNCHANGED appVars

\* a `- ` list item, or a line no branch takes: only the pop loop has run
LineIgnored ==
  /\ \/ Classified("listItem")
     \/ Classified("none")
  /\ Advance(Popped)

\* `return this.root`
Return ==
  /\ pc = "decoding"
  /\ pos > Len(lines)
  /\ result' = Materialize(root, heap)
  /\ pc' = "returned"
  /\ UNCHANGED <<input, text, codecVars, lines, pos, root, heap, stack,
                 owned, calls, fed>>
  /\ UNCHANGED appVars

Next ==
  \/ Escape
  \/ ScanCell
  \/ ParseCell
  \/ Measure
  \/ Generate
  \/ GenerateThrows
  \/ DecodeEncoded
  \/ DecodeToonText
  \/ DecoderDecode
  \/ SkipBlank
  \/ LineTableStart
  \/ LineArrayStart
  \/ LineObjectStart
  \/ LineKeyValue
  \/ LineKeyValueThrows
  \/ LineTableRow
  \/ LineIgnored
  \/ Return

Spec == Init /\ [][Next]_vars

(* ------------------------------------------------------------------ *)
(* App: the generate flow and Clear                                    *)
(* ------------------------------------------------------------------ *)

\* the prompt area changes: onChange sets the prompt only
SetPrompt ==
  /\ \E p \in Prompts : prompt' = p
  /\ UNCHANGED <<validationStatus, status, jsonData, jsonString, toonString,
                 appStats, viewMode, errorMsg, isVerified, requests>>
  /\ UNCHANGED coreVars

\* the update made by the validation effect is processed, some time after
\* the handler that changed the prompt has returned: until then the App is
\* rendered with the new prompt and the old validationStatus.  Updates
\* queued by several runs of the effect are processed together, the last
\* one, made for the current prompt, giving the value
ValidatePrompt ==
  /\ validationStatus # validate(prompt)
  /\ validationStatus' = validate(prompt)
  /\ UNCHANGED <<prompt, status, jsonData, jsonString, toonString, appStats,
                 viewMode, errorMsg, isVerified, requests>>
  /\ UNCHANGED coreVars

\* one of the three view buttons
SetViewMode ==
  /\ \E m \in ViewModes : viewMode' = m
  /\ UNCHANGED <<prompt, validationStatus, status, jsonData, jsonString,
                 toonString, appStats, errorMsg, isVerified, requests>>
  /\ UNCHANGED coreVars

\* handleGenerate up to the await: the button is disabled while loading and
\* while validationStatus, which may lag behind the prompt, is not 'valid';
\* the call is made with the prompt as it is, short or empty included
HandleGenerate ==
  /\ status # "loading"
  /\ validationStatus = "valid"
  /\ Len(requests) < MaxPending
  /\ status' = "loading"
  /\ errorMsg' = Null
  /\ isVerified' = FALSE
  /\ requests' = Append(requests, Waiting(prompt))
  /\ UNCHANGED <<prompt, validationStatus, jsonData, jsonString, toonString,
                 appStats, viewMode>>
  /\ UNCHANGED coreVars

\* generateDataFromPrompt settles: the parsed response, or an Error
Settle ==
  /\ \E i \in 1..Len(requests) : \E o \in Outcomes :
       /\ requests[i].t = "waiting"
       /\ requests' = [requests EXCEPT ![i] = o]
  /\ UNCHANGED <<prompt, validationStatus, status, jsonData, jsonString,
                 toonString, appStats, viewMode, errorMsg, isVerified>>
  /\ UNCHANGED coreVars

\* handleGenerate after the await, the promise resolved.  convertToToon is
\* called inside the outer try: when it raises, no setter of the try block
\* has run yet and the catch block sets the message of the error and the
\* status 'error'.
GenerateResolved ==
  /\ \E i \in 1..Len(requests) :
       /\ requests[i].t = "resolved"
       /\ LET data == requests[i].v
              jsonStr == JsonIndented(data, <<>>)
              toonStr == convertToToon(data)
          IN IF toonStr = TypeError
             THEN /\ errorMsg' = Str(S_CannotConvert)
                  /\ status' = "error"
                  /\ UNCHANGED <<jsonData, jsonString, toonString, appStats,
                                 isVerified, viewMode>>
             ELSE /\ jsonData' = data
                  /\ jsonString' = jsonStr
                  /\ toonString' = toonStr
                  /\ appStats' = calculateTokenStats(jsonStr, toonStr)
                  /\ isVerified' = verified(data, toonStr)
                  /\ status' = "success"
                  /\ viewMode' = "toon"
                  /\ UNCHANGED errorMsg
       /\ requests' = RemoveAt(requests, i)
  /\ UNCHANGED <<prompt, validationStatus>>
  /\ UNCHANGED coreVars

\* handleGenerate after the await, the promise rejected: the catch block
GenerateRejected ==
  /\ \E i \in 1..Len(requests) :
       /\ requests[i].t = "rejected"
       /\ errorMsg' = Str(requests[i].v)
       /\ requests' = RemoveAt(requests, i)
  /\ status' = "error"
  /\ UNCHANGED <<prompt, validationStatus, jsonData, jsonString, toonString,
                 appStats, viewMode, isVerified>>
  /\ UNCHANGED coreVars

\* handleClear: validationStatus is left to the validation effect
HandleClear ==
  /\ prompt' = <<>>
  /\ status' = "idle"
  /\ jsonData' = Null
  /\ jsonString' = <<>>
  /\ toonString' = <<>>
  /\ appStats' = NoStats
  /\ errorMsg' = Null
  /\ isVerified' = FALSE
  /\ UNCHANGED <<validationStatus, viewMode, requests>>
  /\ UNCHANGED coreVars

AppNext ==
  \/ SetPrompt
  \/ ValidatePrompt
  \/ SetViewMode
  \/ HandleGenerate
  \/ Settle
  \/ GenerateResolved
  \/ GenerateRejected
  \/ HandleClear

AppSpec == Init /\ [][AppNext]_vars

(* ------------------------------------------------------------------ *)
(* Notions used by the properties                                      *)
(* ------------------------------------------------------------------ *)

IsScalar(x) == x.t \in {"null", "bool", "num", "str"}

KeySet(o) == {o.v[n][1] : n \in 1..Len(o.v)}

\* deep equality of two values, the order of the keys of an object ignored
RECURSIVE DeepEqual(_, _)
DeepEqual(x, y) ==
  IF x.t # y.t THEN FALSE
  ELSE IF x.t = "arr"
  THEN /\ Len(x.v) = Len(y.v)
       /\ \A n \in 1..Len(x.v) : DeepEqual(x.v[n], y.v[n])
  ELSE IF x.t = "obj"
  THEN /\ Len(x.v) = Len(y.v)
       /\ KeySet(x) = KeySet(y)
       /\ \A k \in KeySet(x) : DeepEqual(Get(x, k), Get(y, k))
  ELSE x = y

\* a value built from scalars, objects and uniform arrays only
RECURSIVE IsTabularValue(_)
IsTabularValue(x) ==
  IF x.t = "obj" THEN \A n \in 1..Len(x.v) : IsTabularValue(x.v[n][2])
  ELSE IF x.t = "arr"
  THEN isUniformArray(x.v) /\ \A n \in 1..Len(x.v) : IsTabularValue(x.v[n])
  ELSE TRUE

\* a uniform array of objects whose cells are numbers
IsNumberTable(x) ==
  /\ x.t = "arr"
  /\ isUniformArray(x.v)
  /\ \A n \in 1..Len(x.v) : \A j \in 1..Len(x.v[n].v) : x.v[n].v[j][2].t = "num"

\* the first line of a text
FirstLine(t) == Split(t, NL)[1]

\* the permutations of 1..n
Perms(n) == {p \in [1..n -> 1..n] : \A i, j \in 1..n : p[i] = p[j] => i = j}

\* the values x becomes when the entries of an object are permuted
PermutedElem(x) ==
  IF x.t = "obj"
  THEN {Obj([n \in 1..Len(x.v) |-> x.v[p[n]]]) : p \in Perms(Len(x.v))}
  ELSE {x}

\* the arrays a becomes when the keys inside its elements are permuted
KeyPermuted(a) ==
  {b \in [1..Len(a) -> UNION {PermutedElem(a[n]) : n \in 1..Len(a)}] :
     \A n \in 1..Len(a) : b[n] \in PermutedElem(a[n])}

\* the text of a table row: element x in the column order keys, behind the
\* indentation ind
RowText(ind, x, keys) ==
  ind \o Join([j \in 1..Len(keys) |-> escapeVal(Get(x, keys[j]))], <<",">>)

(* ------------------------------------------------------------------ *)
(* Properties                                                          *)
(* ------------------------------------------------------------------ *)

\* C1: for every value built from null, booleans, numbers, strings, objects
\* and uniform arrays, decodeToon(convertToToon(v)) is deep-equal to v (the
\* key order ignored).  Stated for the documents whose root is an object or
\* an array.
C1_RoundTrip ==
  (/\ pc = "returned"
   /\ input # NoInput
   /\ input.t \in {"obj", "arr"}
   /\ IsTabularValue(input))
    => DeepEqual(result, input)

\* C2: a root object with a field holding a uniform array of scalar-valued
\* objects is recovered exactly by decodeToon(convertToToon(v)), wherever
\* that field stands among the keys (here: keys a and b, the cells and the
\* other fields numbers).
C2_TableFieldRoundTrip ==
  (/\ pc = "returned"
   /\ input # NoInput
   /\ input.t = "obj"
   /\ KeySet(input) \subseteq {KA, KB}
   /\ \E n \in 1..Len(input.v) : IsNumberTable(input.v[n][2])
   /\ \A n \in 1..Len(input.v) :
        input.v[n][2].t = "num" \/ IsNumberTable(input.v[n][2]))
    => result = input

\* C3: for every string s, parseCSV(escapeVal(s)) is exactly one cell, the
\* string s.
C3_EscapeScanInverse ==
  (pc = "scanned" /\ input.t = "str") => cells = <<input>>

\* C4: for every scalar x, parseValue of the text the encoder writes for x
\* is x again, with the type of x.
C4_ScalarRoundTrip ==
  pc = "parsed" => parsed = input

\* the criterion of C5: non-empty, every element a non-null
\* non-array object, every element with the key set of the first
ClaimedTabular(a) ==
  /\ Len(a) > 0
  /\ \A n \in 1..Len(a) : a[n].t = "obj"
  /\ \A n \in 1..Len(a) : KeySet(a[n]) = KeySet(a[1])

\* the text begins with a table header
EncodedTabular(t) == tableStartMatch(FirstLine(t))

\* the input is an array, or an object whose only field holds an array
HasTestedArray ==
  \/ input.t = "arr"
  \/ input.t = "obj" /\ Len(input.v) = 1 /\ input.v[1][2].t = "arr"

\* the elements of that array
TestedArray == IF input.t = "arr" THEN input.v ELSE input.v[1][2].v

\* C5: an array is encoded in tabular form exactly when it is
\* non-empty, all its elements are non-null non-array objects with the key
\* set of the first, and isUniformArray does not depend on the key order
\* inside the elements.
C5_TabularIffUniform ==
  (pc = "encoded" /\ HasTestedArray)
    => /\ EncodedTabular(text) <=> ClaimedTabular(TestedArray)
       /\ \A b \in KeyPermuted(TestedArray) :
            isUniformArray(b) = isUniformArray(TestedArray)

\* C6: a non-empty array of scalars (null, boolean, number, string) is
\* encoded as the one line `[N]: e1,...,eN` of its escaped elements.
C6_PrimitiveArrayLine ==
  (/\ pc = "encoded"
   /\ input.t = "arr"
   /\ Len(input.v) > 0
   /\ \A n \in 1..Len(input.v) : IsScalar(input.v[n]))
    => /\ text = CountTag(Len(input.v)) \o <<":", " ">>
                   \o Join([n \in 1..Len(input.v) |-> escapeVal(input.v[n])], <<",">>)
       /\ ~Includes(text, NL)

\* C7: a uniform array is encoded as the header `table[N]{c1,...,ck}:`, the
\* columns being the keys of the first element in insertion order, and
\* exactly N row lines, two spaces deeper, row i with the values of element
\* i in column order.
C7_TableBlock ==
  (pc = "encoded" /\ input.t = "arr" /\ isUniformArray(input.v))
    => LET a == input.v
           keys == Keys(a[1])
           ls == Split(text, NL)
       IN /\ Len(ls) = Len(a) + 1
          /\ ls[1] = S_table \o CountTag(Len(a)) \o <<"{">>
                       \o Join(keys, <<",">>) \o <<"}", ":">>
          /\ \A n \in 1..Len(a) : ls[n + 1] = RowText(<<" ", " ">>, a[n], keys)

\* C8: within one decode, once a line has set the root, the root is never
\* replaced by another container.
C8_RootFixed ==
  [][(pc = "decoding" /\ calls = 1 /\ root.t = "ref") => root' = root]_vars

\* C9: a table header line `KEY[N]{h1,...,hk}:` attaches the new array under
\* KEY in the current container (the object of the innermost open frame,
\* the root object when no frame is open) and pushes a table frame with the
\* headers at the indent of the line; the array becomes the root only for
\* the keyless `table[N]{...}:`.
C9_TableHeader ==
  [][(Classified("tableStart") /\ pos' = pos + 1) =>
       LET content == Trim(lines[pos])
           key == headerKey(content)
           open == popFrames(stack, LeadWS(lines[pos]))
           top == stack'[Len(stack')]
           new == Ref(top.container)
       IN /\ Len(stack') = Len(open) + 1
          /\ top.type = "table"
          /\ top.indent = LeadWS(lines[pos])
          /\ top.headers = Split(tableStartHeaders(content), ",")
          /\ heap'[top.container] = NewArrCell(<<>>)
          /\ IF key = S_table
             THEN root' = new
             ELSE /\ root' # new
                  /\ \E id \in 1..Len(heap') :
                       /\ IF Len(open) = 0 THEN root' = Ref(id)
                          ELSE open[Len(open)].container = id
                       /\ heap'[id].kind = "obj"
                       /\ \E n \in 1..Len(heap'[id].ents) :
                            heap'[id].ents[n] = <<key, new>>]_vars

\* C10: every decode call starts from an empty stack and a null root, and
\* what it returns depends on the text of that call only.
C10_FreshDecode ==
  /\ (pc = "decoding" /\ pos = 1) => (root = Null /\ stack = <<>>)
  /\ pc = "returned" => result = decodeToon(text)


\* the line under the loop index takes no branch of processLine, or the
\* empty list-item branch, and the loop moves on
IgnoredStep ==
  /\ \/ Classified("listItem")
     \/ Classified("none")
  /\ pos' = pos + 1

\* C11 as claimed: a non-blank line that matches no classification (a `- `
\* list item included) leaves the root and the frame stack exactly as they
\* were.
C11_IgnoredLine_Claimed ==
  [][IgnoredStep => (root' = root /\ heap' = heap /\ stack' = stack)]_vars

\* C11 amended: a non-blank line that matches no classification (a `- ` list
\* item included) leaves the root and every container as they were, and
\* changes the frame stack only by popping the frames whose indent is greater
\* than or equal to the line's indent: the frames left are a prefix of the
\* stack, and the top one, when there is one, has a smaller indent.
C11_IgnoredLine ==
  [][IgnoredStep =>
       LET i == LeadWS(lines[pos])
       IN /\ root' = root
          /\ heap' = heap
          /\ Len(stack') <= Len(stack)
          /\ stack' = SubSeq(stack, 1, Len(stack'))
          /\ \A n \in (Len(stack') + 1)..Len(stack) : stack[n].indent >= i
          /\ Len(stack') > 0 => stack'[Len(stack')].indent < i]_vars

\* C11 witness: the list item `- 1` at indent 0 has been passed over after
\* `a:` had opened a frame at indent 0, and that frame is gone.
C11_Witness ==
  /\ pc = "decoding"
  /\ calls = 1
  /\ pos = 3
  /\ lines[1] = <<"a", ":">>
  /\ lines[2] = <<"-", " ", "1">>
  /\ root.t = "ref"
  /\ stack = <<>>


\* the number of lines of ls that are list items: `- ` behind the indentation
RECURSIVE ListItemLines(_)
ListItemLines(ls) ==
  IF ls = <<>> THEN 0
  ELSE (IF StartsWith(TrimStart(Head(ls)), <<"-", " ">>) THEN 1 ELSE 0)
         + ListItemLines(Tail(ls))

\* the input is an array, at the root or as the only field of the root
\* object, that is non-empty, not made of scalars only, and not uniform
HasListArray ==
  /\ input # NoInput
  /\ HasTestedArray
  /\ Len(TestedArray) > 0
  /\ \E n \in 1..Len(TestedArray) : ~IsScalar(TestedArray[n])
  /\ ~ClaimedTabular(TestedArray)

\* C12: a non-empty array that is neither all-scalar nor uniform is encoded
\* as a generic list, one `- ` item line per element and no table or array
\* header; when that text is decoded no line of it is classified as a table
\* header, and the value returned is not an array of row objects.
C12_GenericList ==
  /\ (pc = "encoded" /\ HasListArray)
       => /\ ListItemLines(Split(text, NL)) = Len(TestedArray)
          /\ ~EncodedTabular(text)
          /\ ~arrayStartMatch(FirstLine(text))
  /\ (AtLine /\ HasListArray /\ Trim(lines[pos]) # <<>>)
       => LineClass(stack, lines[pos]) # "tableStart"
  /\ (pc = "returned" /\ HasListArray /\ result.t = "arr")
       => \A n \in 1..Len(result.v) : result.v[n].t # "obj"


\* a table row is taken from the line under the loop index
RowStep == Classified("tableRow") /\ pos' = pos + 1

\* the frame a row step fills: the top of the stack after the pop loop
RowFrame == LET open == popFrames(stack, LeadWS(lines[pos])) IN open[Len(open)]

\* the cell the j-th header receives
RowCell(values, j) == IF j <= Len(values) THEN values[j] ELSE Null

\* what a row step does besides building the row: the frames above the
\* table frame are popped, one new object is appended to the frame's array,
\* and nothing else changes
RowAppended ==
  LET ctx == RowFrame
      id == Len(heap) + 1
  IN /\ stack' = popFrames(stack, LeadWS(lines[pos]))
     /\ root' = root
     /\ Len(heap') = id
     /\ heap'[id].kind = "obj"
     /\ heap'[ctx.container].items = Append(heap[ctx.container].items, Ref(id))
     /\ \A n \in 1..Len(heap) :
          n # ctx.container => heap'[n] = heap[n]

\* C13: a table row line processed under a Table frame with
\* headers h1..hk appends exactly one object whose keys are h1..hk in order,
\* key hj holding the j-th parsed cell, null when the cell is missing; cells
\* beyond the k-th are dropped.
C13_TableRow ==
  [][RowStep =>
       LET hs == RowFrame.headers
           values == parseCSV(Trim(lines[pos]))
           row == heap'[Len(heap')].ents
       IN /\ RowAppended
          /\ Len(row) = Len(hs)
          /\ \A j \in 1..Len(hs) : row[j] = <<hs[j], RowCell(values, j)>>]_vars

\* an empty array or an empty object
IsEmptyContainer(x) == x = Arr(<<>>) \/ x = Obj(<<>>)

\* the text of an empty container: `[]` or `{}`
EmptyText(x) == IF x.t = "arr" THEN <<"[", "]">> ELSE <<"{", "}">>

\* C14: an empty array or empty object under a key is encoded as `KEY: []`
\* or `KEY: {}` (at the root as `[]` or `{}`), and decoding the encoded text
\* gives an empty array or empty object back at the same position.
C14_EmptyContainers ==
  /\ (pc \in {"encoded", "returned"} /\ input # NoInput /\ IsEmptyContainer(input))
       => /\ text = EmptyText(input)
          /\ pc = "returned" => result = input
  /\ (pc \in {"encoded", "returned"} /\ input # NoInput /\ input.t = "obj")
       => \A n \in 1..Len(input.v) :
            IsEmptyContainer(input.v[n][2]) =>
              LET key == input.v[n][1]
                  ls == Split(text, NL)
              IN /\ \E m \in 1..Len(ls) :
                      ls[m] = key \o <<":", " ">> \o EmptyText(input.v[n][2])
                 /\ pc = "returned" =>
                      /\ result.t = "obj"
                      /\ HasOwn(result, key)
                      /\ Get(result, key) = input.v[n][2]


\* C15: decodeToon(text) returns a value and raises no error, for every
\* text: malformed text, lines that match no classification, and key lines
\* that arrive when the root is an array.
C15_DecodeNeverThrows ==
  ~owned => (pc # "thrown" /\ result # Thrown)


\* C16: calculateTokenStats returns savingsPercent = 0 whenever jsonStr is
\* empty, whatever toonStr is.
C16_EmptyJsonSavings ==
  (pc = "measured" /\ stats.jsonChars = 0) => stats.savingsPercent = Num(0)

\* the integer r is a nearest integer of num / den * 100, for den > 0
NearestPercent(r, num, den) ==
  /\ 2 * den * r - 200 * num <= den
  /\ 200 * num - 2 * den * r <= den

\* the smallest integer not below n / 4
IsCeilQuarter(r, n) == 4 * r >= n /\ 4 * (r - 1) < n

\* what C17 says of the rounding and of the token estimates
StatsRounded ==
  /\ stats.savingsPercent.t = "num"
  /\ NearestPercent(stats.savingsPercent.v,
                    stats.jsonChars - stats.toonChars, stats.jsonChars)
  /\ stats.savingsPercent.v <= 100
  /\ IsCeilQuarter(stats.estimatedTokensJson, stats.jsonChars)
  /\ IsCeilQuarter(stats.estimatedTokensToon, stats.toonChars)

\* C17 as claimed: for jsonChars > 0, savingsPercent is
\* (jsonChars - toonChars) / jsonChars * 100 rounded to the nearest integer,
\* at most 100 and negative when the TOON text is longer, and the two token
\* estimates are the character counts divided by 4 and rounded up.
C17_StatsRounding_Claimed ==
  (pc = "measured" /\ stats.jsonChars > 0)
    => /\ StatsRounded
       /\ stats.toonChars > stats.jsonChars => stats.savingsPercent.v < 0

\* C17 amended: for jsonChars > 0, savingsPercent is
\* (jsonChars - toonChars) / jsonChars * 100 rounded to the nearest integer,
\* at most 100 and never positive when the TOON text is longer (0 when it is
\* longer by less than half a percent), and the two token estimates are the
\* character counts divided by 4 and rounded up.
C17_StatsRounding ==
  (pc = "measured" /\ stats.jsonChars > 0)
    => /\ StatsRounded
       /\ stats.toonChars > stats.jsonChars => stats.savingsPercent.v <= 0
       /\ (stats.toonChars > stats.jsonChars /\ stats.savingsPercent.v = 0)
            => 200 * (stats.toonChars - stats.jsonChars) <= stats.jsonChars

\* C17 witness: the statistics of a JSON text of 3 characters and a TOON
\* text of 5: minus 67 percent, one token and two tokens.
C17_Witness ==
  /\ pc = "measured"
  /\ stats.jsonChars = 3
  /\ stats.toonChars = 5
  /\ stats.savingsPercent = Num(-67)
  /\ stats.estimatedTokensJson = 1
  /\ stats.estimatedTokensToon = 2


\* the line opens the entry of key k: `k:` or `k[`
EntryHead(k, line) ==
  \/ StartsWith(line, k \o <<":">>)
  \/ StartsWith(line, k \o <<"[">>)

\* the lines of ls that carry no indentation
TopLines(ls) == SelectSeq(ls, LAMBDA l : LeadWS(l) = 0)

\* C18: for a root object the encoder emits the entries in insertion order,
\* each key once: the lines without indentation are, in order, those of the
\* keys, and a scalar-valued entry is the one line `key: value`; a root object
\* of scalars yields exactly those lines.
C18_ObjectEntries ==
  (pc = "encoded" /\ input.t = "obj" /\ Len(input.v) > 0)
    => LET ls == Split(text, NL)
           top == TopLines(ls)
       IN /\ Len(top) = Len(input.v)
          /\ \A n \in 1..Len(input.v) :
               /\ EntryHead(input.v[n][1], top[n])
               /\ IsScalar(input.v[n][2]) =>
                    top[n] = input.v[n][1] \o <<":", " ">>
                               \o escapeVal(input.v[n][2])
          /\ (\A n \in 1..Len(input.v) : IsScalar(input.v[n][2]))
               => Len(ls) = Len(input.v)


\* processLine runs on the non-blank line under the loop index
LineStep ==
  /\ AtLine
  /\ Trim(lines[pos]) # <<>>
  /\ pos' = pos + 1 \/ pc' = "thrown"

\* the indents of the frames grow strictly from the bottom of the stack to
\* the top
StackIncreasing ==
  \A n \in 1..(Len(stack) - 1) : stack[n].indent < stack[n + 1].indent

\* C19: when a non-blank line of indent i is processed, every frame whose
\* indent is greater than or equal to i is popped before the line is
\* classified (the frames of smaller indent stay, and the only other frame
\* is one the line pushes, at indent i, for a container it created); and in every reachable state of the decoder the indents on
\* the frame stack are strictly increasing from bottom to top.
C19_StackIndents ==
  /\ []StackIncreasing
  /\ [][LineStep =>
          LET i == LeadWS(lines[pos])
              kept == {n \in 1..Len(stack) : stack[n].indent < i}
          IN /\ \A n \in kept : n <= Len(stack') /\ stack'[n] = stack[n]
             /\ \A n \in 1..Len(stack') :
                  \/ n \in kept
                  \/ /\ n = Len(stack')
                     /\ n = Cardinality(kept) + 1
                     /\ stack'[n].indent = i
                     /\ stack'[n].container > Len(heap)]_vars

\* C19 witness: `b: 1` at indent 0 has been processed after `a:` and `  a:`
\* had opened frames at indents 0 and 2, and both frames are popped.
C19_Witness ==
  /\ pc = "decoding"
  /\ pos = 5
  /\ lines[1] = <<"a", ":">>
  /\ lines[2] = <<" ", " ", "a", ":">>
  /\ lines[3] = <<" ", " ", " ", " ", "a", ":", " ", "1">>
  /\ lines[4] = <<"b", ":", " ", "1">>
  /\ stack = <<>>
  /\ result = Null


\* a non-empty string of word characters
IsWord(k) == Len(k) > 0 /\ \A n \in 1..Len(k) : k[n] \in WordChars

\* a non-empty object with word keys whose values are null, booleans,
\* integers, or objects of the same kind
RECURSIVE IsPlainTree(_)
IsPlainTree(x) ==
  /\ x.t = "obj"
  /\ Len(x.v) > 0
  /\ \A n \in 1..Len(x.v) :
       /\ IsWord(x.v[n][1])
       /\ \/ x.v[n][2].t \in {"null", "bool", "num"}
          \/ IsPlainTree(x.v[n][2])

\* C20: for a non-empty root object with word-character keys whose values
\* are null, booleans, integers or nested non-empty objects of the same kind,
\* decodeToon(convertToToon(v)) equals v, every key in the object it belonged
\* to and in the original key order.
C20_NestedObjectRoundTrip ==
  (pc = "returned" /\ input # NoInput /\ IsPlainTree(input)) => result = input


\* the lines of ls that are list items, in order
ItemLines(ls) == SelectSeq(ls, LAMBDA l : StartsWith(TrimStart(l), <<"-", " ">>))

\* the lines of ls share the indentation ind
AllIndentedBy(ls, ind) == \A n \in 1..Len(ls) : LeadWS(ls[n]) = ind

\* the value is encoded as a block of sibling lines: a table, a generic list,
\* or a non-empty object of one-line scalars
IsRowBlock(x) == x.t = "arr" /\ isUniformArray(x.v)

IsListBlock(x) ==
  /\ x.t = "arr"
  /\ Len(x.v) > 0
  /\ \E n \in 1..Len(x.v) : TypeofObject(x.v[n])
  /\ ~isUniformArray(x.v)

IsEntryBlock(x) ==
  /\ x.t = "obj"
  /\ Len(x.v) > 0
  /\ \A n \in 1..Len(x.v) :
       IsScalar(x.v[n][2]) /\ ~Includes(escapeVal(x.v[n][2]), NL)

\* C21: in the text the encoder emits, the sibling lines of one container
\* (the entries of an object, the rows of a table, the items of a generic
\* list) start at one indentation, two spaces deeper than the header or key
\* line that opens the container; the siblings of a root-level container
\* share one indentation.
C21_SiblingIndent ==
  /\ (pc = "encoded" /\ IsRowBlock(input))
       => AllIndentedBy(Tail(Split(text, NL)), 2)
  /\ (pc = "encoded" /\ IsListBlock(input))
       => \E ind \in {0, 2} : AllIndentedBy(ItemLines(Split(text, NL)), ind)
  /\ (pc = "encoded" /\ IsEntryBlock(input))
       => AllIndentedBy(Split(text, NL), 0)
  /\ (pc = "encoded" /\ input.t = "obj" /\ Len(input.v) = 1)
       => LET x == input.v[1][2]
              ls == Split(text, NL)
          IN /\ (IsRowBlock(x) \/ IsEntryBlock(x))
                  => LeadWS(ls[1]) = 0 /\ AllIndentedBy(Tail(ls), 2)
             /\ IsListBlock(x)
                  => LeadWS(ls[1]) = 0 /\ AllIndentedBy(ItemLines(Tail(ls)), 2)


\* the text without the lines that trim to nothing
StripBlank(str) ==
  Join(SelectSeq(Split(str, NL), LAMBDA l : Trim(l) # <<>>), <<NL>>)

\* the text with the line b inserted before line k (after the last line
\* when k is one more than the number of lines)
InsertLine(str, k, b) ==
  LET ls == Split(str, NL)
  IN Join(SubSeq(ls, 1, k - 1) \o <<b>> \o SubSeq(ls, k, Len(ls)), <<NL>>)

\* the blank lines inserted: the empty line, and one indented deeper than
\* any line of the texts
BlankLines == {<<>>, <<" ", " ", " ", " ", " ", " ">>}

\* a decodeToon call has ended, by a return or by an error
DecodeToonDone == pc \in {"returned", "thrown"} /\ ~owned /\ calls = 1

\* C22: inserting or removing blank lines (empty or whitespace-only)
\* anywhere in the text does not change the result of decodeToon: the result
\* is that of the text without its blank lines, for every text of the line
\* pool (which has a blank line) and every text the encoder emits, and that
\* of an emitted text with a blank line inserted at any line position.
C22_BlankLines ==
  DecodeToonDone =>
    /\ result = decodeToon(text)
    /\ decodeToon(StripBlank(text)) = result
    /\ input # NoInput =>
         \A k \in 1..(Len(lines) + 1) : \A b \in BlankLines :
           decodeToon(InsertLine(text, k, b)) = result

\* a blank line stood between a table header and a row that was appended
C22_Witness ==
  /\ DecodeToonDone
  /\ pc = "returned"
  /\ Len(lines) = 3
  /\ tableStartMatch(Trim(lines[1]))
  /\ Trim(lines[2]) = <<>>
  /\ result.t = "arr"
  /\ Len(result.v) = 1


\* the text being decoded is the encoder's output for a root object of
\* one-line scalars under word-character keys: line n is the line of entry n
DecodingScalarEntries ==
  /\ AtLine
  /\ ~owned
  /\ IsEntryBlock(input)
  /\ \A n \in 1..Len(input.v) : IsWord(input.v[n][1])
  /\ Len(lines) = Len(input.v)

\* C23: every line the encoder emits for a scalar-valued object entry
\* (`key: value`, key made of word characters) is classified by the decoder
\* as a key with inline scalar: it attaches a scalar under key in the
\* current container and pushes no frame.
C23_ScalarEntryLine ==
  [][DecodingScalarEntries =>
       LET k == input.v[pos][1]
           after == Materialize(root', heap')
       IN /\ Classified("keyValue")
          /\ keyValKey(Trim(lines[pos])) = k
          /\ stack' = stack
          /\ after.t = "obj"
          /\ HasOwn(after, k)
          /\ IsScalar(Get(after, k))]_vars


\* a uniform array whose cells are scalars without a newline
IsScalarTable(x) ==
  /\ x.t = "arr"
  /\ isUniformArray(x.v)
  /\ \A n \in 1..Len(x.v) : \A j \in 1..Len(Keys(x.v[1])) :
       LET c == Get(x.v[n], Keys(x.v[1])[j])
       IN IsScalar(c) /\ ~Includes(escapeVal(c), NL)

\* the input starts with such an array: it is the root, the only field of
\* the root object, or the first item of the root list
HasLeadingTable ==
  /\ input # NoInput
  /\ \/ IsScalarTable(input)
     \/ input.t = "obj" /\ Len(input.v) = 1 /\ IsScalarTable(input.v[1][2])
     \/ input.t = "arr" /\ Len(input.v) > 0 /\ IsScalarTable(input.v[1])

\* that array: its header is line 1 of the text and its rows follow
LeadingTable ==
  IF IsScalarTable(input) THEN input.v
  ELSE IF input.t = "obj" THEN input.v[1][2].v
  ELSE input.v[1].v

\* the loop of decode is at a non-blank row line of the leading table
AtEncodedRow ==
  /\ AtLine
  /\ ~owned
  /\ HasLeadingTable
  /\ pos \in 2..(Len(LeadingTable) + 1)
  /\ Trim(lines[pos]) # <<>>

\* C24: for a uniform array whose cells are scalars containing no newline,
\* no row line the encoder emits matches the decoder's table-header,
\* array-header or key-line pattern: every non-blank row is classified as a
\* table row and is appended to the table opened by its own header, which
\* is still on top of the stack.
C24_RowLines ==
  [][AtEncodedRow =>
       LET content == Trim(lines[pos])
       IN /\ ~tableStartMatch(content)
          /\ ~arrayStartMatch(content)
          /\ ~keyValMatch(content)
          /\ Classified("tableRow")
          /\ Len(stack) > 0
          /\ stack[Len(stack)].type = "table"
          /\ stack[Len(stack)].indent = LeadWS(lines[1])
          /\ stack' = stack
          /\ RowAppended]_vars


\* the tested array is emitted with a declared count: all its elements are
\* primitives, or it is uniform
EmittedWithCount ==
  /\ HasTestedArray
  /\ Len(TestedArray) > 0
  /\ \/ \A n \in 1..Len(TestedArray) : ~TypeofObject(TestedArray[n])
     \/ isUniformArray(TestedArray)

\* what the decoder returned in the place of the tested array
DecodedArray ==
  IF input.t = "arr" THEN result
  ELSE IF result.t = "obj" /\ HasOwn(result, input.v[1][1])
  THEN Get(result, input.v[1][1])
  ELSE Null

\* C25: for every array the encoder emits with a declared count N (a
\* primitive `KEY[N]:` line or a tabular `KEY[N]{...}:` block), decoding the
\* emitted text reconstructs an array of exactly N elements.
C25_DeclaredCount ==
  (pc = "returned" /\ ~owned /\ input # NoInput /\ EmittedWithCount)
    => /\ DecodedArray.t = "arr"
       /\ Len(DecodedArray.v) = Len(TestedArray)


\* containers put in the place of a nested container
ContainerPool ==
  {Arr(<<>>), Arr(<<Num(1)>>), Obj(<<>>), Obj(<<<<KA, Num(1)>>>>),
   Obj(<<<<KB, Num(1)>>>>)}

\* the values that differ from x inside one nested container only: one
\* object nested in x is replaced by another object, or one array by another
\* array
RECURSIVE NestedVariants(_)
NestedVariants(x) ==
  LET Sub(c) == IF c.t \in {"arr", "obj"}
                THEN {p \in ContainerPool : p.t = c.t /\ p # c}
                       \cup NestedVariants(c)
                ELSE {}
  IN IF x.t = "arr"
     THEN UNION {{[x EXCEPT !.v[n] = y] : y \in Sub(x.v[n])} : n \in 1..Len(x.v)}
     ELSE IF x.t = "obj"
     THEN UNION {{[x EXCEPT !.v[n][2] = y] : y \in Sub(x.v[n][2])} :
                   n \in 1..Len(x.v)}
     ELSE {}

\* C26: every object or array nested in the input of convertToToon is
\* encoded structurally and never flattened into one escaped cell or field,
\* so two inputs that differ only inside a nested container are encoded to
\* different texts.
C26_NestedStructural ==
  (pc = "encoded" /\ input.t \in {"arr", "obj"})
    => \A y \in NestedVariants(input) : convertToToon(y) # text


\* s is a prefix of t
IsPrefix(s, t) == Len(s) <= Len(t) /\ SubSeq(t, 1, Len(s)) = s

\* C27: the arrays the decoder has built only change by table rows being
\* appended: no line removes, replaces or overwrites an element, and a
\* `KEY: value` or `KEY:` line never writes into an array, including when
\* the document root is an array.
C27_ArraysAppendOnly ==
  [][LineStep =>
       \A id \in 1..Len(heap) :
         heap[id].kind = "arr" =>
           /\ heap'[id].kind = "arr"
           /\ IsPrefix(heap[id].items, heap'[id].items)
           /\ heap'[id].items # heap[id].items => Classified("tableRow")
           /\ (Classified("keyValue") \/ Classified("objectStart"))
                => heap'[id] = heap[id]]_vars


\* processLine runs on a primitive-array header line
ArrayStep == Classified("arrayStart") /\ pos' = pos + 1

\* C28: processing a primitive-array header line (`KEY[N]: cells` or
\* `[N]: cells`) pushes no frame: the frame stack after the line is exactly
\* the stack left by the pop step, and the array built from the cells is
\* complete as soon as the line is processed (it holds every parsed cell,
\* and no frame refers to it).
C28_ArrayHeaderNoFrame ==
  [][ArrayStep =>
       LET cs == arrayStartCells(Trim(lines[pos]))
           id == Len(heap) + 1
       IN /\ stack' = popFrames(stack, LeadWS(lines[pos]))
          /\ Len(heap') = id
          /\ heap'[id].kind = "arr"
          /\ heap'[id].items = IF cs = <<>> THEN <<>> ELSE parseCSV(cs)
          /\ \A n \in 1..Len(stack') : stack'[n].container # id
          /\ \A n \in 1..Len(heap) :
               heap'[n].items = heap[n].items]_vars

\* C28 witness: `  a[1]: 1` has been processed under the object frame of
\* `a:`; the frame is still the whole stack and the array [1] is stored in
\* the frame's object.
C28_Witness ==
  /\ pc = "decoding"
  /\ pos > 2
  /\ arrayStartMatch(Trim(lines[pos - 1]))
  /\ LeadWS(lines[pos - 1]) = 2
  /\ Len(stack) = 1
  /\ stack[1].type = "object"
  /\ heap[Len(heap)] = NewArrCell(<<Num(1)>>)
  /\ \E n \in 1..Len(heap[stack[1].container].ents) :
       heap[stack[1].container].ents[n][2] = Ref(Len(heap))


\* the continuation of handleGenerate runs for request i, whose promise
\* resolved with data
ResolvedStep(i) ==
  /\ i \in 1..Len(requests)
  /\ requests[i].t = "resolved"
  /\ requests' = RemoveAt(requests, i)

\* C29: in the generate flow a round-trip mismatch or an exception thrown
\* while decoding never puts the generation into the 'error' status: once the
\* data has been generated, status becomes 'success' with the encoded
\* outputs and the stats set, and isVerified is true only when the decoded
\* value serializes to the same JSON as the original data.
C29_VerificationNonFatal ==
  [][\A i \in 1..Len(requests) :
       ResolvedStep(i) =>
         LET data == requests[i].v
             decoded == decodeToon(convertToToon(data))
         IN /\ status' = "success"
            /\ errorMsg' = errorMsg
            /\ jsonData' = data
            /\ jsonString' = JsonIndented(data, <<>>)
            /\ toonString' = convertToToon(data)
            /\ appStats' = calculateTokenStats(jsonString', toonString')
            /\ isVerified' =>
                 /\ decoded # Thrown
                 /\ JsonStringify(decoded) = JsonStringify(data)]_vars

\* what Clear leaves: no data, no texts, no stats, status 'idle'
Cleared ==
  /\ status = "idle"
  /\ jsonData = Null
  /\ jsonString = <<>>
  /\ toonString = <<>>
  /\ appStats = NoStats

\* C30: after Clear is pressed, jsonData, jsonString, toonString and stats
\* stay empty and status stays 'idle' until the user starts a new
\* generation, including when Clear is pressed while a generation request
\* is still pending and that request completes afterwards.
C30_ClearedStays ==
  [][(Cleared /\ status' # "loading") => Cleared']_vars

====
